---- MODULE Spec2Model ----
(***************************************************************************)
(* Paginated listing traversals of BambooAPIClient (src/bamboo_api/api.py).*)
(*                                                                         *)
(* Every list-returning method is a Python generator function: calling it  *)
(* only binds the arguments; its body runs while the consumer is inside    *)
(* next(), up to the next yield, return or raise.  A traversal is one such *)
(* generator object.  Its locals (qs, size, the decoded page, the position *)
(* of the for loop) are the state; the consumer sees the items yielded and *)
(* the exception raised; the server sees the requests sent.                *)
(*                                                                         *)
(* The server is the environment.  It is either arbitrary (any response of *)
(* the bounded set ArbitraryResponses) or fixed (it holds a collection of  *)
(* `total` items and answers every request from it, FixedResponse).        *)
(* An item is named by its index in the server's result set: a page that   *)
(* reports start-index i and carries n items carries items i+1 .. i+n.     *)
(***************************************************************************)
EXTENDS Integers, Sequences, FiniteSets, TLC

\* ---------------------------------------------------------------- bounds
MaxFetch == 2   \* fetches one traversal may perform before the model stops it
MaxItems == 2   \* largest max_result asked for, and largest max-result a page reports
MaxIndex == 2   \* largest size an arbitrary page reports
MaxTotal == 2   \* largest collection a fixed server holds
MaxLabelFetch == 3   \* fetches a build_get_by_label traversal may make

\* ------------------------------------------------------------- the methods
PagedLoops ==
    {"plan_get_list", "plan_get_branches", "build_get_results",
     "build_get_branch_results"}

Methods == PagedLoops \cup {"build_get_list", "environment_get_results"}

\* The five listings the pagination contract names.
Listings == PagedLoops \cup {"build_get_list"}

TravIds == {1, 2}

\* pc values at which the generator body is executing (the consumer is
\* blocked inside next()).
Running == {"entry", "while", "fetch", "for"}

Statuses == {200, 500}

VARIABLES
    server,    \* [fixed |-> BOOLEAN, total |-> Nat]: the environment
    call,      \* call[t]: the method called and its arguments
    pc,        \* pc[t]: position of the generator
    qs,        \* qs[t]: the query-string dict of the traversal
    size,      \* size[t]: the local `size`
    page,      \* page[t]: the local holding the collection decoded last
    it,        \* it[t]: items of page[t] the for loop has already yielded
    yielded,   \* yielded[t]: items delivered to the consumer, in order
    error,     \* error[t]: the exception that reached the consumer, or "none"
    waiting,   \* waiting[t]: the consumer is inside next(), waiting for output
    reqs,      \* reqs[t]: the query strings sent to the server, in order
    resp,      \* resp[t]: the server's answer to the last request
    served,    \* served[t]: the items of all pages decoded so far, in order
    client,    \* the client object: its class and the fields __init__ sets
    projects,  \* the project keys the server holds
    out,       \* the last _make_url or isProject call and its outcome
    gen,       \* the frame of the build_get_by_label generator
    log        \* what the build_get_by_label generator has sent and yielded

travVars == <<server, call, pc, qs, size, page, it, yielded, error, waiting,
              reqs, resp, served>>

clientVars == <<client, projects, out>>

labelVars == <<gen, log>>

vars == <<travVars, clientVars, labelVars>>

\* ------------------------------------------------------------- helpers
Min(a, b) == IF a < b THEN a ELSE b
Max(a, b) == IF a > b THEN a ELSE b

\* Items i+1 .. i+n of the server's result set.
Items(i, n) == [j \in 1 .. n |-> i + j]

NoCall == [method |-> "none", max_result |-> 0, start_index |-> 0,
           enabled_only |-> FALSE, build_state |-> "None"]
NoQs   == [max_result |-> 0, start_index |-> 0,
           enabledOnly |-> "unset", build_state |-> "unset"]
NoPage == [size |-> 0, max_result |-> 0, start_index |-> 0, items |-> <<>>]
NoResp == [kind |-> "none", status |-> 0, size |-> 0, max_result |-> 0,
           start_index |-> 0, items |-> <<>>]

\* ------------------------------------------------------------ the server
\* A response: the outcome of session.get and what the body decodes to.
\*   kind "neterr"     : session.get raised (no response)
\*   kind "html"       : a body that is not JSON
\*   kind "json_error" : a JSON body without the collection
\*   kind "page"       : a JSON body with the collection
Response(k, st, sz, mr, si, n) ==
    [kind |-> k, status |-> st, size |-> sz, max_result |-> mr,
     start_index |-> si, items |-> Items(si, n)]

\* The start-index values an arbitrary server reports for a request from
\* index s: the index asked for, a lower one and a higher one.
ReportedIndexes(s) == {0, s, s + 1}

\* What an arbitrary server may answer to the request q: no answer, a body
\* that is no page (under any status), or a page.  A page never carries more
\* items than the max-result asked for; its size, max-result and start-index
\* are any values of the bounded sets.  Under a failing status a page is the
\* one the request asks for, full.
ArbitraryResponses(q) ==
    {Response("neterr", 0, 0, 0, 0, 0)}
    \cup {Response(k, st, 0, 0, 0, 0) :
            k \in {"html", "json_error"}, st \in Statuses}
    \cup {Response("page", 200, sz, mr, si, n) :
            sz \in 0 .. MaxIndex, mr \in 0 .. MaxItems,
            si \in ReportedIndexes(q.start_index),
            n \in 0 .. Min(MaxItems, q.max_result)}
    \cup {Response("page", 500, sz, q.max_result, q.start_index, q.max_result) :
            sz \in 0 .. MaxIndex}

\* A server holding `total` items answers a request for max-result m from
\* start-index s with the items s+1 .. min(s+m, total), reports the index
\* asked for, the number of items carried as max-result and the total as size.
FixedResponse(total, q) ==
    LET n == Min(q.max_result, Max(total - q.start_index, 0))
    IN  Response("page", 200, total, n, q.start_index, n)

Responses(srv, q) ==
    IF srv.fixed THEN {FixedResponse(srv.total, q)} ELSE ArbitraryResponses(q)

\* ------------------------------------------------- the client object
\* Python values that may be None: None is the empty tuple, any other value
\* x is <<x>>.  A string is the sequence of its pieces; '/' is a piece of
\* its own.
None == <<>>
Some(x) == <<x>>

\* Truth value of a string or None (`if url:`, `host or ...`).
TruthyStr(o) == o # None /\ o[1] # <<>>

\* Truth value of an integer or None (`port or ...`).
TruthyInt(o) == o # None /\ o[1] # 0

DEFAULTlHOST == <<"http://localhost">>
DEFAULT_PORT == 8085

\* The attributes both classes define for the defaults (DEFAULT_HOST is not
\* one of them).
ClassAttrs == {"DEFAULTlHOST", "DEFAULT_PORT"}

Kinds == {"bamboo", "bitbucket"}

NoClient ==
    [kind |-> "none", state |-> "none", error |-> "none",
     args |-> [host |-> None, port |-> None, url |-> None],
     _host |-> None, _port |-> None, _prefix |-> None, _url |-> None]

\* __init__(host, port, prefix, url) of either class: the object it leaves,
\* or the AttributeError of reading self.DEFAULT_HOST.
New(k, host, port, prefix, url) ==
    LET obj == [NoClient EXCEPT !.kind = k,
                                !.args = [host |-> host, port |-> port,
                                          url |-> url]]
    IN  IF TruthyStr(url)
          THEN [obj EXCEPT !.state = "ok", !._url = url]
        ELSE IF ~TruthyStr(host) /\ "DEFAULT_HOST" \notin ClassAttrs
          THEN [obj EXCEPT !.state = "raised", !.error = "AttributeError"]
        ELSE [obj EXCEPT
                !.state = "ok",
                !._host = IF TruthyStr(host) THEN host ELSE Some(DEFAULTlHOST),
                !._port = IF TruthyInt(port) THEN port ELSE Some(DEFAULT_PORT),
                !._prefix = Some(prefix)]

\* '{}'.format(x) of a string or None, and of an integer or None.
FormatStr(o) == IF o = None THEN <<"None">> ELSE o[1]
Str(n) == IF n = DEFAULT_PORT THEN "8085" ELSE "8080"
FormatInt(o) == IF o = None THEN <<"None">> ELSE <<Str(o[1])>>

\* if endpoint[0] != '/': endpoint = "/{}".format(endpoint)
WithSlash(endpoint) ==
    IF endpoint[1] # "/" THEN <<"/">> \o endpoint ELSE endpoint

\* _make_url(endpoint): the url and the exception, one of them "none".
MakeUrlOf(c, endpoint) ==
    IF endpoint = <<>>
      THEN [url |-> <<>>, error |-> "IndexError"]
    ELSE IF TruthyStr(c._url)
      THEN [url |-> c._url[1] \o WithSlash(endpoint), error |-> "none"]
    ELSE [url |-> FormatStr(c._host) \o <<":">> \o FormatInt(c._port)
                    \o FormatStr(c._prefix) \o WithSlash(endpoint),
          error |-> "none"]

\* The build_get_by_label generator before it is called.
NoGen == [pc |-> "none", labels |-> <<>>, li |-> 0, page_index |-> 0,
          cells |-> <<>>, nl |-> FALSE, it |-> 0]
NoLog == [reqs |-> <<>>, pages |-> <<>>, served |-> <<>>, yielded |-> <<>>,
          error |-> "none"]

LabelIdle == gen = NoGen /\ log = NoLog

\* A client constructed with a url.
ClientReady ==
    /\ client = New("bamboo", None, None, <<>>, Some(<<"http://u">>))
    /\ projects = {}
    /\ out = [op |-> "none"]

\* ------------------------------------------------------------------ Init
Fresh(ids) ==
    /\ call    = [t \in ids |-> NoCall]
    /\ pc      = [t \in ids |-> "none"]
    /\ qs      = [t \in ids |-> NoQs]
    /\ size    = [t \in ids |-> 0]
    /\ page    = [t \in ids |-> NoPage]
    /\ it      = [t \in ids |-> 0]
    /\ yielded = [t \in ids |-> <<>>]
    /\ error   = [t \in ids |-> "none"]
    /\ waiting = [t \in ids |-> FALSE]
    /\ reqs    = [t \in ids |-> <<>>]
    /\ resp    = [t \in ids |-> NoResp]
    /\ served  = [t \in ids |-> <<>>]

\* One traversal, by a client constructed with a url, against an arbitrary
\* server.
Init ==
    /\ server = [fixed |-> FALSE, total |-> 0]
    /\ Fresh({1})
    /\ ClientReady
    /\ LabelIdle

\* Two traversals against a server with a fixed collection.
InitFixed ==
    /\ \E n \in 0 .. MaxTotal : server = [fixed |-> TRUE, total |-> n]
    /\ Fresh(TravIds)
    /\ ClientReady
    /\ LabelIdle

\* The client runs on one thread: the caller acts only while no generator
\* body is executing.
Idle == \A t \in DOMAIN pc : pc[t] \notin Running

\* ------------------------------------------------------------ the caller
\* Mutant of Call: an ordinary function, whose body starts at the call.
CallEager(t, m, mr, si, eo, bs) ==
    /\ Idle
    /\ pc[t] = "none"
    /\ call' = [call EXCEPT ![t] =
                  [method |-> m, max_result |-> mr, start_index |-> si,
                   enabled_only |-> eo, build_state |-> bs]]
    /\ pc' = [pc EXCEPT ![t] = "entry"]
    /\ UNCHANGED <<server, qs, size, page, it, yielded, error, waiting,
                   reqs, resp, served>>

\* client.<method>(max_result=mr, start_index=si, enabled_only=eo,
\* build_state=bs): a generator object is created; no statement of the body
\* runs.
Call(t, m, mr, si, eo, bs) ==
    /\ Idle
    /\ pc[t] = "none"
    /\ call' = [call EXCEPT ![t] =
                  [method |-> m, max_result |-> mr, start_index |-> si,
                   enabled_only |-> eo, build_state |-> bs]]
    /\ pc' = [pc EXCEPT ![t] = "created"]
    /\ UNCHANGED <<server, qs, size, page, it, yielded, error, waiting,
                   reqs, resp, served>>

\* next(gen): the body starts, or resumes after the yield it is suspended at.
ConsumerNext(t) ==
    /\ Idle
    /\ pc[t] \in {"created", "suspended"}
    /\ pc' = [pc EXCEPT ![t] = IF pc[t] = "created" THEN "entry" ELSE "for"]
    /\ waiting' = [waiting EXCEPT ![t] = TRUE]
    /\ UNCHANGED <<server, call, qs, size, page, it, yielded, error,
                   reqs, resp, served>>

\* The consumer stops consuming: the generator object is dropped.
Abandon(t) ==
    /\ Idle
    /\ pc[t] \in {"created", "suspended"}
    /\ pc' = [pc EXCEPT ![t] = "closed"]
    /\ UNCHANGED <<server, call, qs, size, page, it, yielded, error, waiting,
                   reqs, resp, served>>

\* --------------------------------------------------------- the generator
\* An exception propagates out of next(): the generator is over.
Raise(t, e) ==
    /\ pc' = [pc EXCEPT ![t] = "raised"]
    /\ error' = [error EXCEPT ![t] = e]
    /\ waiting' = [waiting EXCEPT ![t] = FALSE]

\* build_get_list reads the name planKey, which is neither a parameter (the
\* parameter is `key`) nor a global: NameError, before its loop is reached.
ReadsUndefinedName(m) == m = "build_get_list"

\* if build_state: (None and the empty string are not validated, not sent)
Given(bs) == bs \notin {"None", ""}

valid_build_states == {"Successful", "Failed", "Unknown"}

\* Mutant of ValidBuildState: no validation.
AnyBuildState(bs) == TRUE

\* build_state not in valid_build_states is false.
ValidBuildState(bs) == bs \in valid_build_states

\* build_get_branch_results raises ValueError for a build_state that is given
\* and is not one of the valid ones.
RejectsBuildState(c) ==
    /\ c.method = "build_get_branch_results"
    /\ Given(c.build_state)
    /\ ~ValidBuildState(c.build_state)

\* The query string built from the arguments: max-result and start-index
\* always, enabledOnly (plan_get_branches) and build_state
\* (build_get_branch_results) only when the argument is given.
BuildQs(c) ==
    [max_result  |-> c.max_result,
     start_index |-> c.start_index,
     enabledOnly |-> IF c.method = "plan_get_branches" /\ c.enabled_only
                       THEN "true" ELSE "unset",
     build_state |-> IF /\ c.method = "build_get_branch_results"
                        /\ Given(c.build_state)
                        /\ ~RejectsBuildState(c)
                       THEN c.build_state ELSE "unset"]

\* The statements before the loop: qs is built from the arguments and size
\* is set to 1; build_get_list raises on the way, and so does
\* build_get_branch_results when build_state is not valid.
Entry(t) ==
    /\ pc[t] = "entry"
    /\ qs' = [qs EXCEPT ![t] = BuildQs(call[t])]
    /\ IF ReadsUndefinedName(call[t].method)
         THEN /\ Raise(t, "NameError")
              /\ UNCHANGED size
         ELSE IF RejectsBuildState(call[t])
         THEN /\ Raise(t, "ValueError")
              /\ UNCHANGED size
         ELSE /\ pc' = [pc EXCEPT ![t] = "while"]
              /\ size' = [size EXCEPT ![t] = 1]
              /\ UNCHANGED <<error, waiting>>
    /\ UNCHANGED <<server, call, page, it, yielded, reqs, resp, served>>

\* while qs['start-index'] < size:
LoopTest(q, sz) == q.start_index < sz

\* The loop test; when it fails the generator returns (StopIteration).
While(t) ==
    /\ pc[t] = "while"
    /\ IF LoopTest(qs[t], size[t])
         THEN /\ pc' = [pc EXCEPT ![t] = "fetch"]
              /\ UNCHANGED waiting
         ELSE /\ pc' = [pc EXCEPT ![t] = "done"]
              /\ waiting' = [waiting EXCEPT ![t] = FALSE]
    /\ UNCHANGED <<server, call, qs, size, page, it, yielded, error,
                   reqs, resp, served>>

\* The exception the decoding of response r raises in a paged loop, or
\* "none": _get_response does not look at the status; .json() raises on a
\* body that is not JSON; response['plans'] raises on a missing collection.
DecodeError(r) ==
    CASE r.kind = "neterr"     -> "ConnectionError"
      [] r.kind = "html"       -> "ValueError"
      [] r.kind = "json_error" -> "KeyError"
      [] OTHER                 -> "none"

\* The exception environment_get_results raises on response r: it checks
\* the status, decodes the size, then subscripts the Response object.
EnvError(r) ==
    CASE r.kind = "neterr"     -> "ConnectionError"
      [] r.status >= 400       -> "HTTPError"
      [] r.kind = "html"       -> "ValueError"
      [] r.kind = "json_error" -> "KeyError"
      [] OTHER                 -> "TypeError"

\* The decoded collection kept in the local (plans / branches / results).
Decoded(r) ==
    [size |-> r.size, max_result |-> r.max_result,
     start_index |-> r.start_index, items |-> r.items]

\* One fetch: qs is sent, the response decoded.
Fetch(t) ==
    /\ pc[t] = "fetch"
    /\ Len(reqs[t]) < MaxFetch
    /\ reqs' = [reqs EXCEPT ![t] = Append(@, qs[t])]
    /\ \E r \in Responses(server, qs[t]) :
         /\ resp' = [resp EXCEPT ![t] = r]
         /\ IF call[t].method = "environment_get_results"
              THEN /\ Raise(t, EnvError(r))
                   /\ size' = [size EXCEPT ![t] =
                                 IF EnvError(r) = "TypeError" THEN r.size ELSE @]
                   /\ UNCHANGED <<page, it, served>>
              ELSE IF DecodeError(r) # "none"
                     THEN /\ Raise(t, DecodeError(r))
                          /\ UNCHANGED <<size, page, it, served>>
                     ELSE /\ page' = [page EXCEPT ![t] = Decoded(r)]
                          /\ size' = [size EXCEPT ![t] = r.size]
                          /\ it' = [it EXCEPT ![t] = 0]
                          /\ served' = [served EXCEPT ![t] = @ \o r.items]
                          /\ pc' = [pc EXCEPT ![t] = "for"]
                          /\ UNCHANGED <<error, waiting>>
    /\ UNCHANGED <<server, call, qs, yielded>>

\* Mutant of ForItem: the page is walked from its end.
ForItemReversed(p, i) == p.items[Len(p.items) - i]

\* The item the for loop yields after it has yielded i items of page p.
ForItem(p, i) == p.items[i + 1]

\* for r in plans['plan']: yield r -- one item is handed to the consumer
\* and the generator is suspended at the yield.
Yield(t) ==
    /\ pc[t] = "for"
    /\ it[t] < Len(page[t].items)
    /\ yielded' = [yielded EXCEPT ![t] = Append(@, ForItem(page[t], it[t]))]
    /\ it' = [it EXCEPT ![t] = @ + 1]
    /\ pc' = [pc EXCEPT ![t] = "suspended"]
    /\ waiting' = [waiting EXCEPT ![t] = FALSE]
    /\ UNCHANGED <<server, call, qs, size, page, error, reqs, resp, served>>

\* Mutant of Advance: the page's max-result is also stored as the
\* max-result to ask for.
AdvanceStoresMax(q, p) ==
    [q EXCEPT !.start_index = @ + p.max_result, !.max_result = p.max_result]

\* Mutant of Advance: the start-index is advanced by the items counted.
AdvanceByCount(q, p) == [q EXCEPT !.start_index = @ + Len(p.items)]

\* qs['start-index'] += plans['max-result']
Advance(q, p) == [q EXCEPT !.start_index = @ + p.max_result]

\* Mutant of EndFor: qs is one dict shared by all traversals of the client.
EndForShared(t) ==
    /\ pc[t] = "for"
    /\ it[t] = Len(page[t].items)
    /\ qs' = [u \in DOMAIN qs |-> Advance(qs[u], page[t])]
    /\ pc' = [pc EXCEPT ![t] = "while"]
    /\ UNCHANGED <<server, call, size, page, it, yielded, error, waiting,
                   reqs, resp, served>>

\* The for loop is exhausted: the paging info is updated and the loop
\* goes back to its test.
EndFor(t) ==
    /\ pc[t] = "for"
    /\ it[t] = Len(page[t].items)
    /\ qs' = [qs EXCEPT ![t] = Advance(@, page[t])]
    /\ pc' = [pc EXCEPT ![t] = "while"]
    /\ UNCHANGED <<server, call, size, page, it, yielded, error, waiting,
                   reqs, resp, served>>

\* ------------------------------------------------------------------ Next
\* The arguments a caller passes.
MaxResultArgs  == 0 .. MaxItems
StartIndexArgs == {0, 1}
EnabledOnlyArgs(m) ==
    IF m = "plan_get_branches" THEN BOOLEAN ELSE {FALSE}
BuildStateArgs(m) ==
    IF m = "build_get_branch_results"
      THEN {"None", "", "Successful", "Bogus"} ELSE {"None"}

\* The traversals the caller can start now.
Callable == IF Idle THEN {t \in DOMAIN pc : pc[t] = "none"} ELSE {}

Next ==
    \/ /\ \E t \in Callable, m \in Methods, mr \in MaxResultArgs,
             si \in StartIndexArgs :
                 \E eo \in EnabledOnlyArgs(m), bs \in BuildStateArgs(m) :
                     Call(t, m, mr, si, eo, bs)
       /\ UNCHANGED <<clientVars, labelVars>>
    \/ /\ \E t \in DOMAIN pc : ConsumerNext(t)
       /\ UNCHANGED <<clientVars, labelVars>>
    \/ /\ \E t \in DOMAIN pc : Abandon(t)
       /\ UNCHANGED <<clientVars, labelVars>>
    \/ /\ \E t \in DOMAIN pc : Entry(t)
       /\ UNCHANGED <<clientVars, labelVars>>
    \/ /\ \E t \in DOMAIN pc : While(t)
       /\ UNCHANGED <<clientVars, labelVars>>
    \/ /\ \E t \in DOMAIN pc : Fetch(t)
       /\ UNCHANGED <<clientVars, labelVars>>
    \/ /\ \E t \in DOMAIN pc : Yield(t)
       /\ UNCHANGED <<clientVars, labelVars>>
    \/ /\ \E t \in DOMAIN pc : EndFor(t)
       /\ UNCHANGED <<clientVars, labelVars>>

Spec == Init /\ [][Next]_vars

SpecFixed == InitFixed /\ [][Next]_vars

\* ------------------------------------------- construction and isProject
\* The arguments a caller constructs a client with, and the endpoints and
\* project keys it passes.
HostArgs   == {None, Some(<<"http://h">>)}
PortArgs   == {None, Some(8080)}
PrefixArgs == {<<>>, <<"/", "p">>}
UrlArgs    == {None, Some(<<>>), Some(<<"http://u">>), Some(<<"http://u", "/">>)}
Endpoints  == {<<>>, <<"x">>, <<"/", "x">>}
Keys       == {"K1", "K2"}

\* What the server may answer to GET <PROJECT_SERVICE>/key: nothing, the
\* project as JSON under 200 when it holds the key and 404 when it does
\* not, a refusal or a failure, or a 200 page that is not JSON.
Answers(key) ==
    {[kind |-> "neterr", status |-> 0],
     [kind |-> "json", status |-> IF key \in projects THEN 200 ELSE 404],
     [kind |-> "json", status |-> 401],
     [kind |-> "json", status |-> 500],
     [kind |-> "html", status |-> 200]}

\* r.raise_for_status() raises HTTPError.
RaisesForStatus(a) == a.status >= 400

\* BambooAPIClient.isProject, given the answer to its request: the values
\* it may return and the exceptions it may raise.  A connection error and
\* a body that is not JSON carry no response, so reading
\* err.response.status_code raises AttributeError; after an HTTPError other
\* than 404 `raise Exception(err)` runs outside the except block, where err
\* is unbound under Python 3.
BambooIsProject(a) ==
    IF a.kind = "neterr"
      THEN {[value |-> "none", error |-> "AttributeError"]}
    ELSE IF RaisesForStatus(a)
      THEN IF a.status = 404
             THEN {[value |-> "False", error |-> "none"]}
             ELSE {[value |-> "none", error |-> e] :
                      e \in {"Exception", "UnboundLocalError"}}
    ELSE IF a.kind = "json"
      THEN {[value |-> "True", error |-> "none"]}
      ELSE {[value |-> "none", error |-> "AttributeError"]}

\* BitbucketAPIClient.isProject: project_get_by_key returns the response
\* whatever its status, so only a connection error reaches the except
\* block, where err.args[0] has no status_code.
BitbucketIsProject(a) ==
    IF a.kind = "neterr"
      THEN {[value |-> "none", error |-> "AttributeError"]}
      ELSE {[value |-> "True", error |-> "none"]}

\* Client(host=, port=, prefix=, url=)
Construct(k, host, port, prefix, url) ==
    /\ client.state = "none"
    /\ client' = New(k, host, port, prefix, url)
    /\ UNCHANGED <<projects, out>>

\* client._make_url(endpoint)
MakeUrl(endpoint) ==
    /\ client.state = "ok"
    /\ LET r == MakeUrlOf(client, endpoint)
       IN  out' = [op |-> "_make_url", endpoint |-> endpoint,
                   url |-> r.url, error |-> r.error]
    /\ UNCHANGED <<client, projects>>

\* client.isProject(key)
IsProject(key) ==
    /\ client.state = "ok"
    /\ \E a \in Answers(key) :
          \E r \in IF client.kind = "bamboo"
                     THEN BambooIsProject(a) ELSE BitbucketIsProject(a) :
              out' = [op |-> "isProject", key |-> key, answer |-> a,
                      value |-> r.value, error |-> r.error]
    /\ UNCHANGED <<client, projects>>

\* No client yet; the server holds any set of projects.
InitClient ==
    /\ server = [fixed |-> FALSE, total |-> 0]
    /\ Fresh({1})
    /\ client = NoClient
    /\ projects \in SUBSET Keys
    /\ out = [op |-> "none"]
    /\ LabelIdle

NextClient ==
    \/ /\ \E k \in Kinds, host \in HostArgs, port \in PortArgs,
             prefix \in PrefixArgs, url \in UrlArgs :
                 Construct(k, host, port, prefix, url)
       /\ UNCHANGED <<travVars, labelVars>>
    \/ /\ \E endpoint \in Endpoints : MakeUrl(endpoint)
       /\ UNCHANGED <<travVars, labelVars>>
    \/ /\ \E key \in Keys : IsProject(key)
       /\ UNCHANGED <<travVars, labelVars>>

SpecClient == InitClient /\ [][NextClient]_vars

\* ---------------------------------------------------- build_get_by_label
\* The labels a caller passes: none (the default), or a list.
LabelArgs == {None, Some(<<>>), Some(<<"x">>), Some(<<"x", "y">>)}

\* What the td cells found in a page hold: the key of the build their first
\* three links name, or "short" for a cell with fewer than three links.
CellLists == {<<>>, <<"B1">>, <<"B1", "B2">>, <<"B1", "short">>}

\* What the server may answer to a label search: nothing, or a page of
\* cells with or without a nextLink.
LabelResponses ==
    {[kind |-> "neterr", cells |-> <<>>, nl |-> FALSE]}
    \cup {[kind |-> "html", cells |-> c, nl |-> n] :
            c \in CellLists, n \in BOOLEAN}

\* client.build_get_by_label(labels): a generator object is created.
LabelCall(labels) ==
    /\ gen.pc = "none"
    /\ gen' = [gen EXCEPT !.pc = "created", !.labels = labels]
    /\ UNCHANGED log

\* next(gen): the body starts, or resumes after the yield.
LabelConsumerNext ==
    /\ gen.pc \in {"created", "suspended"}
    /\ gen' = [gen EXCEPT !.pc = IF gen.pc = "created" THEN "for" ELSE "spans"]
    /\ UNCHANGED log

\* Mutant of StartLabel: page_index is set once, before the for loop.
StartLabelKeepsPage(g) ==
    [g EXCEPT !.li = @ + 1, !.pc = "fetch",
              !.page_index = IF g.li = 0 THEN 1 ELSE @]

\* qs['labelName'] = label; page_index = 1
StartLabel(g) == [g EXCEPT !.li = @ + 1, !.pc = "fetch", !.page_index = 1]

\* for label in labels: TypeError when labels is None, the end of the
\* generator when the labels are exhausted, the next label otherwise.
ForLabel ==
    /\ gen.pc = "for"
    /\ IF gen.labels = None
         THEN /\ gen' = [gen EXCEPT !.pc = "raised"]
              /\ log' = [log EXCEPT !.error = "TypeError"]
       ELSE IF gen.li = Len(gen.labels[1])
         THEN /\ gen' = [gen EXCEPT !.pc = "done"]
              /\ UNCHANGED log
       ELSE /\ gen' = StartLabel(gen)
            /\ UNCHANGED log

\* qs['pageIndex'] = page_index; response = self._get_response(path, qs);
\* the page is parsed.
LabelFetch ==
    /\ gen.pc = "fetch"
    /\ Len(log.reqs) < MaxLabelFetch
    /\ \E r \in LabelResponses :
          LET q == [li |-> gen.li, labelName |-> gen.labels[1][gen.li],
                    pageIndex |-> gen.page_index]
          IN  IF r.kind = "neterr"
                THEN /\ gen' = [gen EXCEPT !.pc = "raised"]
                     /\ log' = [log EXCEPT !.reqs = Append(@, q),
                                           !.error = "ConnectionError"]
                ELSE /\ gen' = [gen EXCEPT !.pc = "spans", !.cells = r.cells,
                                           !.nl = r.nl, !.it = 0]
                     /\ log' = [log EXCEPT !.reqs = Append(@, q),
                                           !.pages = Append(@, r),
                                           !.served = @ \o r.cells]

\* The next cell of the page: its build is yielded, or unpacking its links
\* raises ValueError.
LabelYield ==
    /\ gen.pc = "spans"
    /\ gen.it < Len(gen.cells)
    /\ LET cell == gen.cells[gen.it + 1]
       IN  IF cell = "short"
             THEN /\ gen' = [gen EXCEPT !.pc = "raised"]
                  /\ log' = [log EXCEPT !.error = "ValueError"]
             ELSE /\ gen' = [gen EXCEPT !.pc = "suspended", !.it = @ + 1]
                  /\ log' = [log EXCEPT !.yielded = Append(@, cell)]

\* page_index += 1; if nl is None: break
AfterPage(g) ==
    [g EXCEPT !.page_index = @ + 1, !.pc = IF g.nl THEN "fetch" ELSE "for"]

\* The cells of the page are exhausted.
LabelEndPage ==
    /\ gen.pc = "spans"
    /\ gen.it = Len(gen.cells)
    /\ gen' = AfterPage(gen)
    /\ UNCHANGED log

InitLabel ==
    /\ server = [fixed |-> FALSE, total |-> 0]
    /\ Fresh({1})
    /\ ClientReady
    /\ LabelIdle

NextLabel ==
    \/ /\ \E labels \in LabelArgs : LabelCall(labels)
       /\ UNCHANGED <<travVars, clientVars>>
    \/ /\ LabelConsumerNext
       /\ UNCHANGED <<travVars, clientVars>>
    \/ /\ ForLabel
       /\ UNCHANGED <<travVars, clientVars>>
    \/ /\ LabelFetch
       /\ UNCHANGED <<travVars, clientVars>>
    \/ /\ LabelYield
       /\ UNCHANGED <<travVars, clientVars>>
    \/ /\ LabelEndPage
       /\ UNCHANGED <<travVars, clientVars>>

SpecLabel == InitLabel /\ [][NextLabel]_vars

\* ================================================================ claims
Listing(t) == call[t].method \in Listings
Paged(t)   == call[t].method \in PagedLoops

\* The items of the current page the for loop has not yielded yet.
Rest(t) == SubSeq(page[t].items, it[t] + 1, Len(page[t].items))

Last(s) == s[Len(s)]

IsPrefix(a, b) == Len(a) <= Len(b) /\ a = SubSeq(b, 1, Len(a))

\* ------------------------------------------------------------------- C1
\* C1 (P1, order): at every point of a listing traversal the items delivered,
\* followed by the items of the current page still to be yielded, are the
\* concatenation of the items of the pages served, in page order and in
\* intra-page order; when the traversal ends normally the items delivered
\* are exactly that concatenation (nothing omitted, duplicated, reordered).
C1_Order ==
    \A t \in DOMAIN pc :
        Listing(t) =>
            /\ yielded[t] \o Rest(t) = served[t]
            /\ pc[t] = "done" => yielded[t] = served[t]

\* Two non-empty pages served at contiguous start-indexes 0 and 1, carrying
\* items 1 and 2,3, were traversed to the end.
C1_Witness ==
    \E t \in DOMAIN pc :
        /\ Listing(t)
        /\ pc[t] = "done"
        /\ Len(reqs[t]) = 2
        /\ reqs[t][2].start_index = 1
        /\ resp[t].start_index = 1
        /\ yielded[t] = <<1, 2, 3>>

Drifted(t) ==
    /\ resp[t].kind = "page"
    /\ resp[t].start_index # Last(reqs[t]).start_index

\* C3 (P3, drift): when the page just fetched reports a start-index other
\* than the one requested, nothing of it is yielded, no further fetch is
\* about to be made and no error is raised.
C3_DriftStops ==
    \A t \in DOMAIN pc :
        (Listing(t) /\ Drifted(t)) =>
            /\ it[t] = 0
            /\ pc[t] # "fetch"
            /\ error[t] = "none"

\* ------------------------------------------------------------------- C4
\* C4 (P2, exhaustion): once a fetched page carries zero items the traversal
\* makes no further fetch.
C4_EmptyPageEnds ==
    [][\A t \in DOMAIN pc :
          (Listing(t) /\ resp[t].kind = "page" /\ resp[t].items = <<>>) =>
              reqs'[t] = reqs[t]]_vars

\* ------------------------------------------------------------------- C5
\* A fetch that failed: no response, a non-success status or a body that
\* does not hold the collection.
FetchFailed(r) ==
    \/ r.kind \in {"neterr", "html", "json_error"}
    \/ r.kind = "page" /\ r.status # 200

\* C5 (P5, failure propagation): when the last fetch failed, the failure has
\* been raised to the consumer, every item of the earlier pages has been
\* delivered and nothing more is fetched.
C5_FailureRaised ==
    \A t \in DOMAIN pc :
        FetchFailed(resp[t]) =>
            /\ pc[t] = "raised"
            /\ error[t] # "none"
            /\ yielded[t] = served[t]

\* ------------------------------------------------------------------- C6
\* C6 (termination): the requested start-index strictly increases from one
\* fetch to the next, so that a traversal of a collection of `total` items
\* makes at most total + 1 fetches.
C6_StartIndexIncreases ==
    \A t \in DOMAIN pc :
        Listing(t) =>
            /\ \A k \in 1 .. Len(reqs[t]) - 1 :
                   reqs[t][k].start_index < reqs[t][k + 1].start_index
            /\ Len(reqs[t]) <= server.total + 1

\* ------------------------------------------------------------------- C7
\* The number of pages of at most m items that n items make.
PageCount(n, m) == (n + m - 1) \div m

\* C7 (fetch count): a traversal asked for pages of m >= 1 items from index
\* s of a collection holding more than s items ends having yielded the items
\* s+1 .. total and having made one fetch per non-empty page plus one.
C7_FetchCount ==
    \A t \in DOMAIN pc :
        (/\ Paged(t)
         /\ pc[t] = "done"
         /\ call[t].max_result >= 1
         /\ server.total > call[t].start_index) =>
            /\ yielded[t] =
                   Items(call[t].start_index, server.total - call[t].start_index)
            /\ Len(reqs[t]) =
                   1 + PageCount(server.total - call[t].start_index,
                                 call[t].max_result)

\* ------------------------------------------------------------------- C8
\* C8 (page size 0): a traversal called with max_result = 0 makes no fetch
\* and yields nothing.
C8_ZeroPageSizeRejected ==
    \A t \in DOMAIN pc :
        (Listing(t) /\ call[t].max_result = 0) =>
            /\ reqs[t] = <<>>
            /\ yielded[t] = <<>>

\* ------------------------------------------------------------------- C9
\* C9 (laziness, abandonment): a fetch is made only while the consumer is
\* inside next() and has been handed every item fetched so far, and never
\* after the consumer dropped the traversal; in particular no fetch is made
\* by the call itself or between two calls of next().
C9_Lazy ==
    [][\A t \in DOMAIN pc :
          reqs'[t] # reqs[t] =>
              /\ waiting[t]
              /\ yielded[t] = served[t]
              /\ pc[t] # "closed"]_vars

\* A traversal was dropped in the middle of its second page: two fetches,
\* items of the second page left unyielded.
C9_Witness ==
    \E t \in DOMAIN pc :
        /\ pc[t] = "closed"
        /\ Len(reqs[t]) = 2
        /\ yielded[t] # <<>>
        /\ Rest(t) # <<>>

\* ------------------------------------------------------------------ C10
\* The requests and the items of the paged loop run alone from query string
\* q with size sz against a collection of `total` items, for at most k
\* fetches.
RECURSIVE SoloReqs(_, _, _, _)
SoloReqs(total, q, sz, k) ==
    IF k = 0 \/ ~LoopTest(q, sz)
      THEN <<>>
      ELSE LET r == FixedResponse(total, q)
           IN  <<q>> \o SoloReqs(total, Advance(q, Decoded(r)), r.size, k - 1)

RECURSIVE SoloItems(_, _, _, _)
SoloItems(total, q, sz, k) ==
    IF k = 0 \/ ~LoopTest(q, sz)
      THEN <<>>
      ELSE LET r == FixedResponse(total, q)
           IN  r.items \o SoloItems(total, Advance(q, Decoded(r)), r.size, k - 1)

FirstQs(t) == BuildQs(call[t])

AloneReqs(t) ==
    CASE Paged(t) -> SoloReqs(server.total, FirstQs(t), 1, MaxFetch)
      [] call[t].method = "environment_get_results" ->
             SoloReqs(server.total, FirstQs(t), 1, 1)
      [] OTHER -> <<>>

AloneItems(t) ==
    IF Paged(t) THEN SoloItems(server.total, FirstQs(t), 1, MaxFetch) ELSE <<>>

\* C10 (independence): whatever the other traversal of the client has done,
\* a traversal has sent a prefix of the requests, and been handed a prefix of
\* the items, of the same call run alone, all of them once it has returned;
\* its first request carries its own start_index.
C10_Independent ==
    \A t \in DOMAIN pc :
        pc[t] # "none" =>
            /\ IsPrefix(reqs[t], AloneReqs(t))
            /\ IsPrefix(yielded[t], AloneItems(t))
            /\ pc[t] = "done" =>
                   (reqs[t] = AloneReqs(t) /\ yielded[t] = AloneItems(t))
            /\ reqs[t] # <<>> => reqs[t][1].start_index = call[t].start_index

\* The first traversal is in its second page when the second one, started
\* later with the same arguments, has fetched its first page from index 0.
C10_Witness ==
    /\ DOMAIN pc = TravIds
    /\ Paged(1) /\ Paged(2)
    /\ pc[1] = "suspended" /\ pc[2] = "suspended"
    /\ Len(reqs[1]) = 2
    /\ Len(reqs[2]) = 1
    /\ reqs[2][1].start_index = 0
    /\ yielded[1] = <<1, 2>>
    /\ yielded[2] = <<1>>

\* ------------------------------------------------------------------ C11
\* C11 (lifecycle): a listing traversal reaches a terminal state only after
\* a fetch; an error reaches the caller only when a fetch failed; after it
\* has returned, raised or been dropped it fetches and yields nothing more
\* and stays where it is.
C11_Lifecycle ==
    [][\A t \in DOMAIN pc :
          call'[t].method \in Listings =>
              /\ pc'[t] \in {"done", "raised"} => reqs'[t] # <<>>
              /\ error'[t] # "none" => FetchFailed(resp'[t])
              /\ pc[t] \in {"done", "raised", "closed"} =>
                     /\ pc'[t] = pc[t]
                     /\ reqs'[t] = reqs[t]
                     /\ yielded'[t] = yielded[t]]_vars

\* ------------------------------------------------------------------ C12
\* C12 (frame): every request of a traversal carries the max-result the
\* caller passed and the other parameters built from the arguments, so that
\* start-index is the only parameter that differs between two requests; the
\* first request carries the caller's start_index.
C12_Frame ==
    \A t \in DOMAIN pc :
        Listing(t) =>
            /\ \A k \in 1 .. Len(reqs[t]) :
                  /\ reqs[t][k].max_result = call[t].max_result
                  /\ [reqs[t][k] EXCEPT !.start_index = call[t].start_index]
                         = BuildQs(call[t])
            /\ reqs[t] # <<>> => reqs[t][1] = BuildQs(call[t])

\* plan_get_branches(enabled_only=True) sent two requests from different
\* start-indexes, after a page whose max-result is not the one asked for.
C12_Witness ==
    \E t \in DOMAIN pc :
        /\ call[t].method = "plan_get_branches"
        /\ call[t].enabled_only
        /\ Len(reqs[t]) = 2
        /\ reqs[t][1].enabledOnly = "true"
        /\ reqs[t][2].start_index # reqs[t][1].start_index
        /\ page[t].max_result # call[t].max_result

\* ------------------------------------------------------------------ C16
\* C16 (build_state), as stated: a build_get_branch_results traversal whose
\* build_state is given (is not None) and is not Successful, Failed or
\* Unknown makes no fetch and yields no item, and once started it has
\* raised ValueError; one whose build_state is one of the three carries it
\* unchanged in every request.
C16_Original ==
    \A t \in DOMAIN pc :
        (call[t].method = "build_get_branch_results"
            /\ call[t].build_state # "None") =>
            IF call[t].build_state \in {"Successful", "Failed", "Unknown"}
              THEN \A k \in 1 .. Len(reqs[t]) :
                       reqs[t][k].build_state = call[t].build_state
              ELSE /\ reqs[t] = <<>>
                   /\ yielded[t] = <<>>
                   /\ pc[t] \notin {"created", "entry", "closed"} =>
                          (pc[t] = "raised" /\ error[t] = "ValueError")

\* C16 amended: the same, for a build_state that is given and is not the
\* empty string.
C16_BuildState ==
    \A t \in DOMAIN pc :
        (call[t].method = "build_get_branch_results"
            /\ Given(call[t].build_state)) =>
            IF call[t].build_state \in {"Successful", "Failed", "Unknown"}
              THEN \A k \in 1 .. Len(reqs[t]) :
                       reqs[t][k].build_state = call[t].build_state
              ELSE /\ reqs[t] = <<>>
                   /\ yielded[t] = <<>>
                   /\ pc[t] \notin {"created", "entry", "closed"} =>
                          (pc[t] = "raised" /\ error[t] = "ValueError")

\* One traversal was called with build_state "Bogus" and has raised
\* ValueError without a fetch; another, called with "Successful", has sent
\* it in two requests.
C16_Witness ==
    \E t, u \in DOMAIN pc :
        /\ call[t].method = "build_get_branch_results"
        /\ call[t].build_state = "Bogus"
        /\ pc[t] = "raised"
        /\ error[t] = "ValueError"
        /\ reqs[t] = <<>>
        /\ call[u].method = "build_get_branch_results"
        /\ call[u].build_state = "Successful"
        /\ Len(reqs[u]) = 2
        /\ reqs[u][2].build_state = "Successful"

\* ------------------------------------------------------------------ C13
\* C13 (isProject): in both clients isProject returns True when the server
\* answers the request for the key with the project (200, JSON), returns
\* False when it answers 404, and never returns True after a 404.
C13_IsProject ==
    out.op = "isProject" =>
        /\ (out.answer.kind = "json" /\ out.answer.status = 200) =>
               out.value = "True"
        /\ out.answer.status = 404 => out.value = "False"
        /\ out.value = "True" => out.answer.status # 404

\* ------------------------------------------------------------------ C15
\* The base _make_url puts in front of the endpoint.
Base(c) ==
    IF TruthyStr(c._url)
      THEN c._url[1]
      ELSE FormatStr(c._host) \o <<":">> \o FormatInt(c._port)
               \o FormatStr(c._prefix)

\* C15 (construction): a client constructed without url and without host is
\* usable and has host http://localhost and, when no port is passed
\* either, port 8085; a client constructed with a (non-empty) url keeps it
\* verbatim and keeps no host, port or prefix; _make_url of a (non-empty)
\* endpoint without a leading '/' is the base, one '/', and the endpoint.
C15_Construction ==
    /\ (client.state # "none" /\ client.args.url = None
            /\ client.args.host = None) =>
           /\ client.state = "ok"
           /\ client._host = Some(DEFAULTlHOST)
           /\ client.args.port = None => client._port = Some(DEFAULT_PORT)
    /\ (client.state # "none" /\ TruthyStr(client.args.url)) =>
           /\ client.state = "ok"
           /\ client._url = client.args.url
           /\ client._host = None
           /\ client._port = None
           /\ client._prefix = None
    /\ (out.op = "_make_url" /\ out.endpoint # <<>>
            /\ out.endpoint[1] # "/") =>
           /\ out.error = "none"
           /\ out.url = Base(client) \o <<"/">> \o out.endpoint

\* ------------------------------------------------------------------ C14
\* The cells of the current page not yet gone through.
LabelRest == SubSeq(gen.cells, gen.it + 1, Len(gen.cells))

\* C14 (build_get_by_label): the first request is for the first label and
\* pageIndex 1; a request after a page with a nextLink is for the same label
\* and the next pageIndex, a request after a page without one is for the
\* next label and pageIndex 1; a request is sent, and the generator ends,
\* only when every build of the pages fetched has been yielded; what is
\* yielded is the builds of the pages in order, repeated builds included;
\* when the generator ends every label has been searched.
C14_LabelPaging ==
    /\ \A k \in 1 .. Len(log.reqs) :
          /\ log.reqs[k].labelName = gen.labels[1][log.reqs[k].li]
          /\ IF k = 1
               THEN log.reqs[k].li = 1 /\ log.reqs[k].pageIndex = 1
             ELSE IF log.pages[k - 1].nl
               THEN /\ log.reqs[k].li = log.reqs[k - 1].li
                    /\ log.reqs[k].pageIndex = log.reqs[k - 1].pageIndex + 1
             ELSE /\ log.reqs[k].li = log.reqs[k - 1].li + 1
                  /\ log.reqs[k].pageIndex = 1
    /\ log.error = "none" => log.yielded \o LabelRest = log.served
    /\ gen.pc \in {"for", "fetch", "done"} => log.yielded = log.served
    /\ gen.pc = "done" =>
          /\ Len(log.reqs) >= Len(gen.labels[1])
          /\ gen.labels[1] # <<>> =>
                 /\ Last(log.reqs).li = Len(gen.labels[1])
                 /\ ~Last(log.pages).nl

\* Labels x and y were searched to the end with pages x/1, x/2 and y/1, and
\* build B1 was yielded for both labels.
C14_Witness ==
    /\ gen.pc = "done"
    /\ gen.labels = Some(<<"x", "y">>)
    /\ Len(log.reqs) = 3
    /\ log.reqs[2].pageIndex = 2
    /\ log.reqs[3].labelName = "y"
    /\ log.yielded = <<"B1", "B2", "B1">>

====
